---- MODULE Spec2Model ----
(***************************************************************************)
(* The @Bind method decorator (packages/bind).                             *)
(*                                                                         *)
(* The model is the property table of a small heap: the defining object    *)
(* (the prototype the method is declared on), the objects that inherit     *)
(* from it, and one unrelated object used as an explicit receiver.  Each   *)
(* object has one own-property slot, the slot named by the decorated       *)
(* property key.  The decorator replaces the defining object's slot by an  *)
(* accessor; every property read that reaches the accessor runs the        *)
(* getter of bind.ts, which builds an InitialBindingState, hands it to     *)
(* MethodBindingDelegator.process and returns or throws.                   *)
(*                                                                         *)
(* Timestamps (Date.now()) and the previousState back-references of the    *)
(* state classes are never read by the code and are left out.              *)
(***************************************************************************)
EXTENDS Integers, FiniteSets, Sequences, TLC

(* ------------------------------ bounds --------------------------------- *)

\* bound functions the runtime may create in one behaviour
MaxFns == 3
\* largest value of an object's counter field (calls of the method body)
MaxCount == 2

(* ------------------------------ the heap ------------------------------- *)

\* the object the method is declared on (bind.ts: target)
Target == "T"
\* objects that inherit from the defining object
Instances == {"A", "B"}
\* an unrelated plain object, used as the receiver of call / apply
Other == "O"
\* objects that can be read through
Objects == {Target} \cup Instances
\* objects a function can run against
Receivers == Objects \cup {Other}
\* the undefined value, as `this` of a detached call in strict code
Undefined == "undefined"

\* function values: the absent value, a non-callable value, the method as
\* declared, and bound functions (one identity per call of Function.bind)
NoFn == [kind |-> "none", this |-> "none", id |-> 0]
NotAFunction == [kind |-> "nonfunction", this |-> "none", id |-> 0]
OriginalMethod == [kind |-> "original", this |-> "none", id |-> 0]

\* own-property slots
Absent ==
  [kind |-> "absent", value |-> NoFn,
   configurable |-> FALSE, writable |-> FALSE, enumerable |-> FALSE]

DataSlot(value, configurable, writable, enumerable) ==
  [kind |-> "data", value |-> value,
   configurable |-> configurable, writable |-> writable,
   enumerable |-> enumerable]

AccessorSlot(configurable, enumerable) ==
  [kind |-> "accessor", value |-> NoFn,
   configurable |-> configurable, writable |-> FALSE,
   enumerable |-> enumerable]

\* a descriptor field that may be left unspecified
TriState == {"true", "false", "undefined"}
ToBoolean(e) == e = "true"

\* the descriptors a declaration can hand to the decorator: a method or a
\* non-callable value with any enumerable flag, or no descriptor at all
Descriptors ==
  [present : {TRUE}, value : {OriginalMethod, NotAFunction}, enumerable : TriState]
    \cup {[present |-> FALSE, value |-> NoFn, enumerable |-> "undefined"]}

\* the constructor property of the defining object: a class, or Object
Constructors == {"Class", "Object"}

\* property keys of the decorated member
PropertyKeys == {"m"}

VARIABLES
  decl,        \* the declaration: descriptor, property key, target.constructor
  phase,       \* "declared", "applied", "decorated", or "failed"
  accessor,    \* the descriptor the decorator returned
  proto,       \* [[Prototype]] of each inheriting object
  alive,       \* objects that have been constructed
  extensible,  \* [[Extensible]] of each object
  slot,        \* the own property named by the property key, per object
  nextId,      \* number of bound functions created so far
  writes,      \* number of defineProperty writes by the resolver, per object
  firstRef,    \* the function the first returning read through an object gave
  last,        \* what the last property access did
  count,       \* the counter field of each object (test: Counter.count)
  lastCall     \* what the last invocation of a held function did

vars ==
  <<decl, phase, accessor, proto, alive, extensible, slot, nextId, writes, firstRef,
    last, count, lastCall>>

(* ------------------------------ states.ts ------------------------------ *)

\* BaseBindingState.validateInstance: "" when accepted, else the message
validateInstance(instance) ==
  IF instance = Undefined THEN "Instance must be provided" ELSE ""

validateMethodName_accept_empty(methodName) == ""

\* BaseBindingState.validateMethodName
validateMethodName(methodName) ==
  IF methodName = "" THEN "Method name must be provided" ELSE ""

\* InitialBindingState.validateTarget
validateTarget(target) ==
  IF target = Undefined THEN "Target must be provided" ELSE ""

validateMethod_accept_any(method) == ""

\* InitialBindingState.validateMethod
validateMethod(method) ==
  IF method.kind \in {"original", "bound", "foreign"}
    THEN ""
    ELSE "Method must be a function"

\* new InitialBindingState(data): super(data) validates instance and method
\* name, then target and method are validated; the first failure is thrown
InitialBindingState(data) ==
  LET msg ==
        IF validateInstance(data.instance) # "" THEN validateInstance(data.instance)
        ELSE IF validateMethodName(data.methodName) # ""
          THEN validateMethodName(data.methodName)
        ELSE IF validateTarget(data.target) # "" THEN validateTarget(data.target)
        ELSE validateMethod(data.method)
  IN [threw |-> msg # "", message |-> msg,
      target |-> data.target, methodName |-> data.methodName,
      method |-> data.method, instance |-> data.instance,
      enumerable |-> data.enumerable]

(* --------------------------- investigators.ts -------------------------- *)

isPrototypeAccess_never(state) == FALSE

\* MethodBindingInvestigator.isPrototypeAccess
isPrototypeAccess(state) == state.instance = state.target

hasExistingBinding_never(state) == FALSE

\* MethodBindingInvestigator.hasExistingBinding
hasExistingBinding(state) == slot[state.instance].kind # "absent"

shouldBindToPrototype_inverted(state) == decl.ctor = "Object"

\* MethodBindingInvestigator.shouldBindToPrototype
shouldBindToPrototype(state) == ~(decl.ctor = "Object")

(* ------------------------------ errors.ts ------------------------------ *)

\* BindingError.assertCanBind: "" when binding is allowed, else the message
\* of the BindingError it throws
assertCanBind(state) ==
  IF ~shouldBindToPrototype(state)
    THEN "Cannot bind: method should not bind to prototype"
    ELSE ""

(* ------------------------------ workers.ts ----------------------------- *)

\* what the delegator hands back: a state class (tag), or a thrown error
\* (tag "Throw" with the error's class); object is the object whose own
\* property it dealt with and slotAfter that property afterwards, created
\* the number of functions bound, wrote whether defineProperty succeeded
Processed(tag, fn, errorClass, message, failedOperation, object, slotAfter, created, wrote) ==
  [tag |-> tag, fn |-> fn, errorClass |-> errorClass, message |-> message,
   failedOperation |-> failedOperation, object |-> object,
   slotAfter |-> slotAfter, created |-> created, wrote |-> wrote]

\* RetrieveOriginalMethodWorker.retrieveFromPrototype
retrieveFromPrototype(state) ==
  Processed("PrototypeMethodState", state.method, "none", "", "none",
            state.instance, slot[state.instance], 0, FALSE)

bind_to_target(state) == [kind |-> "bound", this |-> state.target, id |-> nextId + 1]

bind_returns_method(state) == state.method

\* state.method.bind(state.instance): a new function object, with its
\* [[BoundThis]] fixed to the instance
bind(state) == [kind |-> "bound", this |-> state.instance, id |-> nextId + 1]

bindToInstance_defines_on_target(state) ==
  [threw |-> assertCanBind(state) # "",
   errorClass |-> IF assertCanBind(state) # "" THEN "BindingError" ELSE "none",
   message |-> assertCanBind(state),
   boundMethod |-> IF assertCanBind(state) # "" THEN NoFn ELSE bind(state),
   instance |-> state.target, methodName |-> state.methodName,
   enumerable |-> state.enumerable]

\* CreateMethodBindingWorker.bindToInstance
bindToInstance(state) ==
  IF assertCanBind(state) # ""
    THEN [threw |-> TRUE, errorClass |-> "BindingError",
          message |-> assertCanBind(state), boundMethod |-> NoFn,
          instance |-> state.instance, methodName |-> state.methodName,
          enumerable |-> state.enumerable]
    ELSE [threw |-> FALSE, errorClass |-> "none", message |-> "",
          boundMethod |-> bind(state),
          instance |-> state.instance, methodName |-> state.methodName,
          enumerable |-> state.enumerable]

\* Object.defineProperty(o, key, descriptor) is rejected with a TypeError
\* when o has no such own property and is not extensible, or has one that
\* is not configurable (the new descriptor is configurable)
CanDefine(o) ==
  IF slot[o].kind = "absent" THEN extensible[o] ELSE slot[o].configurable

propertyDescriptor_enumerable(state) ==
  DataSlot(state.boundMethod, TRUE, TRUE, TRUE)

\* the descriptor DefinePropertyWorker.defineOnInstance builds
propertyDescriptor(state) ==
  DataSlot(state.boundMethod, TRUE, TRUE, state.enumerable)

\* DefinePropertyWorker.defineOnInstance
defineOnInstance(state) ==
  IF CanDefine(state.instance)
    THEN Processed("DefinedPropertyState", state.boundMethod, "none", "", "none",
                   state.instance, propertyDescriptor(state), 1, TRUE)
    ELSE Processed("Throw", NoFn, "TypeError",
                   IF slot[state.instance].kind = "absent"
                     THEN "Cannot define property " \o state.methodName
                            \o ", object is not extensible"
                     ELSE "Cannot redefine property: " \o state.methodName,
                   "none", state.instance, slot[state.instance], 1, FALSE)

\* ErrorTransitionWorker.createErrorState
createErrorState(state) ==
  Processed("BindingErrorState", NoFn, "none", state.error, state.failedOperation,
            state.instance, slot[state.instance], 0, FALSE)

\* descriptor.enumerable ?? false
Coalesce(e) == IF e = "undefined" THEN "false" ELSE e

\* the InitialBindingState the getter builds for receiver instance
BindingRequest(instance) ==
  InitialBindingState(
    [target |-> Target, methodName |-> decl.propertyKey,
     method |-> decl.descriptor.value, instance |-> instance,
     enumerable |-> ToBoolean(Coalesce(decl.descriptor.enumerable))])

\* the object on the prototype chain of o that holds the property, if any
RECURSIVE Holder(_)
Holder(o) ==
  IF slot[o].kind # "absent" THEN o
  ELSE IF o = Target THEN "none"
  ELSE Holder(proto[o])

\* RetrieveExistingBindingWorker.retrieveFromInstance: the property read
\* state.instance[state.methodName]. A data property on the chain gives its
\* stored value, no property gives undefined. An accessor on the chain is
\* the one Bind returned, and the read runs its getter with the instance as
\* `this`, inside this call: on the declaring object it gives the original
\* method; on an instance that owns the accessor it comes back here, again
\* and again, until the stack is exhausted; on an instance without own
\* property it binds and defines, or throws what the getter throws
retrieveFromInstance(state) ==
  LET o == state.instance
      request == BindingRequest(o)
      boundState == bindToInstance(request)
      defined == defineOnInstance(boundState)
      threw(errorClass, message, created) ==
        Processed("Throw", NoFn, errorClass, message, "none", o, slot[o],
                  created, FALSE)
      existing(fn) ==
        Processed("ExistingBindState", fn, "none", "", "none", o, slot[o],
                  0, FALSE)
  IN IF Holder(o) = "none" THEN existing(NoFn)
     ELSE IF slot[Holder(o)].kind = "data" THEN existing(slot[Holder(o)].value)
     ELSE IF request.threw THEN threw("TypeError", request.message, 0)
     ELSE IF isPrototypeAccess(request) THEN existing(request.method)
     ELSE IF hasExistingBinding(request)
       THEN threw("RangeError", "Maximum call stack size exceeded", 0)
     ELSE IF boundState.threw THEN threw("BindError", boundState.message, 0)
     ELSE IF defined.tag = "Throw"
       THEN threw(defined.errorClass, defined.message, 1)
     ELSE Processed("ExistingBindState", defined.fn, "none", "", "none",
                    defined.object, defined.slotAfter, 1, TRUE)

(* ----------------------------- delegators.ts --------------------------- *)

catch_rethrows(state, errorClass, message, rethrown) == rethrown

\* the catch clause of process: a BindingError becomes an Error state of
\* the 'bind' phase, anything else is thrown again
catch(state, errorClass, message, rethrown) ==
  IF errorClass = "BindingError"
    THEN createErrorState([instance |-> state.instance, error |-> message,
                           failedOperation |-> "bind"])
    ELSE rethrown

\* MethodBindingDelegator.process
process(state) ==
  IF isPrototypeAccess(state) THEN retrieveFromPrototype(state)
  ELSE IF hasExistingBinding(state)
    THEN LET existing == retrieveFromInstance(state) IN
         IF existing.tag = "Throw"
           THEN catch(state, existing.errorClass, existing.message, existing)
           ELSE existing
  ELSE LET boundState == bindToInstance(state) IN
       IF boundState.threw
         THEN catch(state, boundState.errorClass, boundState.message,
                    Processed("Throw", NoFn, boundState.errorClass,
                              boundState.message, "none", state.instance,
                              slot[state.instance], 0, FALSE))
         ELSE LET defined == defineOnInstance(boundState) IN
              IF defined.tag = "Throw"
                THEN catch(state, defined.errorClass, defined.message, defined)
                ELSE defined

(* ------------------------------- bind.ts ------------------------------- *)

\* what a property access did, as its caller sees it
Access(op, receiver, outcome, value, error, message, state, failedOperation) ==
  [op |-> op, receiver |-> receiver, outcome |-> outcome, value |-> value,
   error |-> error, message |-> message, state |-> state,
   failedOperation |-> failedOperation]

NoAccess == Access("none", "none", "none", NoFn, "none", "", "none", "none")

\* the getter of the accessor Bind returns, run with `this` = instance:
\* the Processed record of the delegator, or tag "Invalid" when building
\* the InitialBindingState threw
get(target, propertyKey, descriptor, instance) ==
  LET state == InitialBindingState(
                 [target |-> target, methodName |-> propertyKey,
                  method |-> descriptor.value, instance |-> instance,
                  enumerable |-> ToBoolean(Coalesce(descriptor.enumerable))])
  IN IF state.threw
       THEN Processed("Invalid", NoFn, "TypeError", state.message, "none",
                      instance,
                      IF instance \in Objects THEN slot[instance] ELSE Absent,
                      0, FALSE)
       ELSE process(state)

\* the getter's mapping of the delegator's result to a return or a throw
Surface(op, receiver, result) ==
  CASE result.tag = "PrototypeMethodState" ->
         Access(op, receiver, "return", result.fn, "none", "", result.tag, "none")
    [] result.tag = "ExistingBindState" ->
         Access(op, receiver, "return", result.fn, "none", "", result.tag, "none")
    [] result.tag = "DefinedPropertyState" ->
         Access(op, receiver, "return", result.fn, "none", "", result.tag, "none")
    [] result.tag = "BindingErrorState" ->
         Access(op, receiver, "throw", NoFn, "BindError", result.message,
                result.tag, result.failedOperation)
    [] result.tag \in {"Invalid", "Throw"} ->
         Access(op, receiver, "throw", NoFn, result.errorClass, result.message,
                result.tag, "none")
    [] OTHER ->
         Access(op, receiver, "throw", NoFn, "BindError",
                "Invalid state returned from delegator", "none", "none")

\* no descriptor
NoDescriptor ==
  [threw |-> FALSE, configurable |-> FALSE, enumerable |-> "undefined",
   hasGet |-> FALSE, hasSet |-> FALSE]

Bind_always_enumerable(target, propertyKey, descriptor) ==
  [threw |-> ~descriptor.present, configurable |-> TRUE,
   enumerable |-> "true", hasGet |-> TRUE, hasSet |-> FALSE]

\* Bind()(target, propertyKey, descriptor): the descriptor it returns;
\* reading descriptor.enumerable of a missing descriptor throws a TypeError
Bind(target, propertyKey, descriptor) ==
  [threw |-> ~descriptor.present, configurable |-> TRUE,
   enumerable |-> descriptor.enumerable, hasGet |-> TRUE, hasSet |-> FALSE]

(* ------------------------------ the runtime ---------------------------- *)

\* the context a call of f with receiver thisArg runs the method body in:
\* a bound function ignores the receiver of the call
Context(f, thisArg) == IF f.kind = "bound" THEN f.this ELSE thisArg

NoCall ==
  [fn |-> NoFn, from |-> "none", style |-> "none", thisArg |-> "none",
   context |-> "none", threw |-> FALSE, ret |-> 0]

\* how a held function can be invoked, and the receiver each style passes
Styles == {"detached", "callback", "call", "apply"}
ThisArgs(style) ==
  IF style \in {"detached", "callback"}
    THEN {Undefined}
    ELSE Instances \cup {Other}

(* ------------------------------- actions ------------------------------- *)

Init ==
  /\ decl \in [descriptor : Descriptors, propertyKey : PropertyKeys,
               ctor : Constructors]
  /\ phase = "declared"
  /\ accessor = NoDescriptor
  /\ proto = [i \in Instances |-> Target]
  /\ alive = [o \in Objects |-> o = Target]
  /\ extensible = [o \in Objects |-> TRUE]
  /\ slot = [o \in Objects |->
               IF o = Target /\ decl.descriptor.present
                 THEN DataSlot(decl.descriptor.value, TRUE, TRUE,
                               ToBoolean(decl.descriptor.enumerable))
                 ELSE Absent]
  /\ nextId = 0
  /\ writes = [o \in Objects |-> 0]
  /\ firstRef = [o \in Objects |-> NoFn]
  /\ last = NoAccess
  /\ count = [r \in Receivers |-> 0]
  /\ lastCall = NoCall

\* the decorator is applied to the declaration: Bind()(target, key,
\* descriptor) returns the accessor descriptor, or throws
ApplyDecorator ==
  /\ phase = "declared"
  /\ LET d == Bind(Target, decl.propertyKey, decl.descriptor) IN
       IF d.threw
         THEN /\ phase' = "failed"
              /\ accessor' = accessor
              /\ last' = Access("ApplyDecorator", Target, "throw", NoFn,
                                "TypeError",
                                "Cannot read properties of undefined (reading 'enumerable')",
                                "none", "none")
         ELSE /\ phase' = "applied"
              /\ accessor' = d
              /\ last' = last
  /\ UNCHANGED <<decl, proto, alive, extensible, slot, nextId, writes,
                 firstRef, count, lastCall>>

\* the decorator-application mechanism of the runtime defines the returned
\* descriptor on the defining object, in place of the declared method
InstallAccessor ==
  /\ phase = "applied"
  /\ phase' = "decorated"
  /\ slot' = [slot EXCEPT
                ![Target] = AccessorSlot(accessor.configurable,
                                         ToBoolean(accessor.enumerable))]
  /\ UNCHANGED <<decl, accessor, proto, alive, extensible, nextId, writes,
                 firstRef, last, count, lastCall>>

\* new C(): an object inheriting from the defining object, or from an
\* object that does
Construct(o) ==
  /\ o \in Instances
  /\ ~alive[o]
  /\ alive[proto[o]]
  /\ phase # "failed"
  /\ alive' = [alive EXCEPT ![o] = TRUE]
  /\ UNCHANGED <<decl, phase, accessor, proto, extensible, slot, nextId, writes,
                 firstRef, last, count, lastCall>>

\* Object.preventExtensions / seal / freeze of an object that has not been
\* read through yet
PreventExtensions(o) ==
  /\ o \in Instances
  /\ alive[o]
  /\ extensible[o]
  /\ slot[o].kind = "absent"
  /\ extensible' = [extensible EXCEPT ![o] = FALSE]
  /\ UNCHANGED <<decl, phase, accessor, proto, alive, slot, nextId, writes, firstRef,
                 last, count, lastCall>>

\* the state change of a run of the getter, through receiver o, that the
\* delegator answered with result
Complete(op, o, result) ==
  LET access == Surface(op, o, result)
  IN /\ slot' = [slot EXCEPT ![result.object] = result.slotAfter]
     /\ nextId' = nextId + result.created
     /\ writes' = [writes EXCEPT
                     ![result.object] = @ + (IF result.wrote THEN 1 ELSE 0)]
     /\ last' = access
     /\ firstRef' = IF access.outcome = "return" /\ firstRef[o] = NoFn
                      THEN [firstRef EXCEPT ![o] = access.value]
                      ELSE firstRef

\* the state change of an access through receiver o that ran the getter
RunGetter(op, o) ==
  LET result == get(Target, decl.propertyKey, decl.descriptor, o)
  IN /\ nextId + result.created <= MaxFns
     /\ Complete(op, o, result)

\* o.m : an ordinary property read; an own data property answers it, an
\* accessor found on the prototype chain runs its getter with this = o
ReadProperty(o) ==
  /\ phase = "decorated"
  /\ alive[o]
  /\ Holder(o) # "none"
  /\ IF slot[Holder(o)].kind = "data"
       THEN /\ last' = Access("ReadProperty", o, "return", slot[Holder(o)].value,
                              "none", "", "data", "none")
            /\ firstRef' = IF firstRef[o] = NoFn
                             THEN [firstRef EXCEPT ![o] = slot[Holder(o)].value]
                             ELSE firstRef
            /\ UNCHANGED <<slot, nextId, writes>>
       ELSE RunGetter("ReadProperty", o)
  /\ UNCHANGED <<decl, phase, accessor, proto, alive, extensible, count, lastCall>>

\* Reflect.get(target, key, o) or super.m : the accessor of the defining
\* object is run with this = o, whatever o's own properties are
ReflectGet(o) ==
  /\ phase = "decorated"
  /\ alive[o]
  /\ RunGetter("ReflectGet", o)
  /\ UNCHANGED <<decl, phase, accessor, proto, alive, extensible, count, lastCall>>

\* the function read through instance o is invoked; the method body is
\* `this.count++; return this.count` (strict code: `this` may be undefined)
Invoke(o, style, thisArg) ==
  /\ o \in Instances
  /\ alive[o]
  /\ firstRef[o].kind \in {"original", "bound"}
  /\ style \in Styles
  /\ thisArg \in ThisArgs(style)
  /\ LET f == firstRef[o]
         ctx == Context(f, thisArg)
     IN IF ctx = Undefined
          THEN /\ count' = count
               /\ lastCall' = [fn |-> f, from |-> o, style |-> style,
                               thisArg |-> thisArg, context |-> ctx,
                               threw |-> TRUE, ret |-> 0]
          ELSE /\ count[ctx] < MaxCount
               /\ count' = [count EXCEPT ![ctx] = @ + 1]
               /\ lastCall' = [fn |-> f, from |-> o, style |-> style,
                               thisArg |-> thisArg, context |-> ctx,
                               threw |-> FALSE, ret |-> count[ctx] + 1]
  /\ UNCHANGED <<decl, phase, accessor, proto, alive, extensible, slot, nextId, writes,
                 firstRef, last>>

Next ==
  \/ ApplyDecorator
  \/ InstallAccessor
  \/ \E o \in Instances : Construct(o)
  \/ \E o \in Instances : PreventExtensions(o)
  \/ \E o \in Objects : ReadProperty(o)
  \/ \E o \in Objects : ReflectGet(o)
  \/ \E o \in Instances, style \in Styles :
       \E thisArg \in ThisArgs(style) : Invoke(o, style, thisArg)

Spec == Init /\ [][Next]_vars

(* ----------------------------- the wider heap ------------------------- *)

\* a function other code stored on an object under the property key
ForeignFunction == [kind |-> "foreign", this |-> "none", id |-> 0]

\* property keys, the empty string among them
WideKeys == {"m", ""}

\* prototype chains: both instances inherit from the defining object, or
\* B inherits from A (A is a subclass prototype, B an instance of it)
Chains ==
  {[i \in Instances |-> Target],
   [i \in Instances |-> IF i = "B" THEN "A" ELSE Target]}

InitWide ==
  /\ decl \in [descriptor : Descriptors, propertyKey : WideKeys,
               ctor : Constructors]
  /\ phase = "declared"
  /\ accessor = NoDescriptor
  /\ proto \in Chains
  /\ alive = [o \in Objects |-> o = Target]
  /\ extensible = [o \in Objects |-> TRUE]
  /\ slot = [o \in Objects |->
               IF o = Target /\ decl.descriptor.present
                 THEN DataSlot(decl.descriptor.value, TRUE, TRUE,
                               ToBoolean(decl.descriptor.enumerable))
                 ELSE Absent]
  /\ nextId = 0
  /\ writes = [o \in Objects |-> 0]
  /\ firstRef = [o \in Objects |-> NoFn]
  /\ last = NoAccess
  /\ count = [r \in Receivers |-> 0]
  /\ lastCall = NoCall

\* other code gives an object its own property under the key before the
\* resolver has (a class field of a subclass, Object.defineProperty)
DefineField(o) ==
  /\ o \in Instances
  /\ alive[o]
  /\ extensible[o]
  /\ slot[o].kind = "absent"
  /\ slot' = [slot EXCEPT ![o] = DataSlot(ForeignFunction, TRUE, TRUE, TRUE)]
  /\ UNCHANGED <<decl, phase, accessor, proto, alive, extensible, nextId,
                 writes, firstRef, last, count, lastCall>>

\* the getter taken off the accessor and called without a receiver: `this`
\* is undefined in the strict code of bind.ts
CallGetter ==
  /\ phase = "decorated"
  /\ LET result == get(Target, decl.propertyKey, decl.descriptor, Undefined) IN
       /\ nextId + result.created <= MaxFns
       /\ nextId' = nextId + result.created
       /\ last' = Surface("CallGetter", Undefined, result)
  /\ UNCHANGED <<decl, phase, accessor, proto, alive, extensible, slot, writes,
                 firstRef, count, lastCall>>

NextWide ==
  \/ ApplyDecorator
  \/ InstallAccessor
  \/ \E o \in Instances : Construct(o)
  \/ \E o \in Instances : PreventExtensions(o)
  \/ \E o \in Instances : DefineField(o)
  \/ \E o \in Objects : ReadProperty(o)
  \/ \E o \in Objects : ReflectGet(o)
  \/ CallGetter

\* the decorator on the wider heap; invocations of the functions read are
\* left to Spec, they touch no property table
SpecWide == InitWide /\ [][NextWide]_vars

(* ------------------------- one access, step by step -------------------- *)

\* an access is under way: the getter has been entered and has not
\* returned or thrown yet
Running == last.outcome = "running"

\* the getter is entered with this = o: the InitialBindingState is built,
\* which throws or leaves the access at Initial, about to be processed;
\* no access starts once more than MaxFns functions have been created
EnterGetter(op, o) ==
  /\ nextId <= MaxFns
  /\ IF BindingRequest(o).threw
       THEN last' = Surface(op, o,
                      Processed("Invalid", NoFn, "TypeError",
                                BindingRequest(o).message, "none", o, Absent,
                                0, FALSE))
       ELSE last' = Access(op, o, "running", NoFn, "none", "",
                           "InitialBindingState", "none")
  /\ UNCHANGED <<slot, nextId, writes, firstRef>>

\* o.m is read: an own data property on the chain answers at once, the
\* accessor enters the getter
BeginRead(o) ==
  /\ ~Running
  /\ phase = "decorated"
  /\ alive[o]
  /\ Holder(o) # "none"
  /\ IF slot[Holder(o)].kind = "data"
       THEN /\ last' = Access("ReadProperty", o, "return", slot[Holder(o)].value,
                              "none", "", "data", "none")
            /\ firstRef' = IF firstRef[o] = NoFn
                             THEN [firstRef EXCEPT ![o] = slot[Holder(o)].value]
                             ELSE firstRef
            /\ UNCHANGED <<slot, nextId, writes>>
       ELSE EnterGetter("ReadProperty", o)
  /\ UNCHANGED <<decl, phase, accessor, proto, alive, extensible, count, lastCall>>

\* the getter is run with an explicit receiver o
BeginReflectGet(o) ==
  /\ ~Running
  /\ phase = "decorated"
  /\ alive[o]
  /\ EnterGetter("ReflectGet", o)
  /\ UNCHANGED <<decl, phase, accessor, proto, alive, extensible, count, lastCall>>

\* the getter is called without a receiver
BeginCallGetter ==
  /\ ~Running
  /\ phase = "decorated"
  /\ EnterGetter("CallGetter", Undefined)
  /\ UNCHANGED <<decl, phase, accessor, proto, alive, extensible, count, lastCall>>

\* process, from Initial up to the call of defineOnInstance: the prototype
\* and existing-binding rules end the access; reading the stored function
\* off an own accessor enters the getter again without end, and the access
\* ends when the stack is exhausted; bindToInstance either
\* throws, which the catch turns into the Error state, or leaves a
\* BoundMethodState to be defined
Resolve ==
  /\ Running
  /\ last.state = "InitialBindingState"
  /\ LET state == BindingRequest(last.receiver) IN
       IF isPrototypeAccess(state)
         THEN Complete(last.op, last.receiver, retrieveFromPrototype(state))
       ELSE IF hasExistingBinding(state)
         THEN LET existing == retrieveFromInstance(state) IN
              Complete(last.op, last.receiver,
                       IF existing.tag = "Throw"
                         THEN catch(state, existing.errorClass, existing.message,
                                    existing)
                         ELSE existing)
       ELSE LET boundState == bindToInstance(state) IN
            IF boundState.threw
              THEN Complete(last.op, last.receiver,
                     catch(state, boundState.errorClass, boundState.message,
                           Processed("Throw", NoFn, boundState.errorClass,
                                     boundState.message, "none", state.instance,
                                     slot[state.instance], 0, FALSE)))
              ELSE /\ last' = Access(last.op, last.receiver, "running",
                                     boundState.boundMethod, "none", "",
                                     "BoundMethodState", "none")
                   /\ nextId' = nextId + 1
                   /\ UNCHANGED <<slot, writes, firstRef>>
  /\ UNCHANGED <<decl, phase, accessor, proto, alive, extensible, count, lastCall>>

\* process, the call of defineOnInstance on the BoundMethodState that
\* bindToInstance left, which holds the function already created: the
\* access ends in DefinedPropertyState, or with defineProperty's error
Define ==
  /\ Running
  /\ last.state = "BoundMethodState"
  /\ LET state == BindingRequest(last.receiver)
         boundState == [bindToInstance(state) EXCEPT !.boundMethod = last.value]
         defined == [defineOnInstance(boundState) EXCEPT !.created = 0]
     IN Complete(last.op, last.receiver,
                 IF defined.tag = "Throw"
                   THEN catch(state, defined.errorClass, defined.message, defined)
                   ELSE defined)
  /\ UNCHANGED <<decl, phase, accessor, proto, alive, extensible, count, lastCall>>

\* what other code does between two accesses
Between ==
  /\ ~Running
  /\ \/ ApplyDecorator
     \/ InstallAccessor
     \/ \E o \in Instances : Construct(o)
     \/ \E o \in Instances : PreventExtensions(o)
     \/ \E o \in Instances : DefineField(o)

NextSteps ==
  \/ Between
  \/ \E o \in Objects : BeginRead(o)
  \/ \E o \in Objects : BeginReflectGet(o)
  \/ BeginCallGetter
  \/ Resolve
  \/ Define

\* an access is synchronous code: once the getter is entered it runs on
SpecSteps ==
  /\ InitWide
  /\ [][NextSteps]_vars
  /\ WF_vars(Resolve)
  /\ WF_vars(Define)

(* ------------------------------ properties ----------------------------- *)

\* a property access (an ordinary read or a read with an explicit receiver)
\* through object o
Reads(o) == ReadProperty(o) \/ ReflectGet(o)

\* the declaration is a method: its original value is callable
DeclaresMethod == decl.descriptor.present /\ decl.descriptor.value = OriginalMethod

\* C1 (identity stability): once a read through instance i has returned a
\* function, that function is the bound function the read created for i and
\* installed on i, every later read through i returns that same reference,
\* and no later read binds a function or writes an own property.
C1_IdentityStability ==
  /\ [](\A i \in Instances :
          firstRef[i] # NoFn =>
            /\ firstRef[i].kind = "bound"
            /\ firstRef[i].this = i
            /\ slot[i].value = firstRef[i])
  /\ [][\A i \in Instances :
          (firstRef[i] # NoFn /\ Reads(i)) =>
            /\ last'.outcome = "return"
            /\ last'.value = firstRef[i]
            /\ slot' = slot
            /\ nextId' = nextId]_vars

\* an ordinary read through A returned A's bound function again, after the
\* prototype and the other instance were read through as well
C1_Witness ==
  /\ last.op = "ReadProperty" /\ last.receiver = "A" /\ last.state = "data"
  /\ firstRef["A"].kind = "bound" /\ last.value = firstRef["A"]
  /\ firstRef["B"].kind = "bound"
  /\ firstRef[Target] = OriginalMethod

\* C2 (context permanence): every invocation of the function read through
\* instance i - detached, as a callback, or with another receiver passed to
\* call / apply - runs the method body against i: it does not throw for a
\* missing context and returns i's running count.
C2_ContextPermanence ==
  lastCall.from \in Instances =>
    /\ lastCall.context = lastCall.from
    /\ ~lastCall.threw
    /\ lastCall.ret = count[lastCall.from]
    /\ lastCall.ret >= 1

\* A's function was applied to another object and still counted on A, twice
C2_Witness ==
  /\ lastCall.from = "A" /\ lastCall.style = "apply" /\ lastCall.thisArg = Other
  /\ lastCall.context = "A" /\ lastCall.ret = 2 /\ count["A"] = 2
  /\ count[Other] = 0

\* C3 (per-instance isolation): two instances that were both read through
\* hold different functions, each bound to its own instance, and an
\* invocation of the function read through one instance changes the counter
\* of that instance only.
C3_PerInstanceIsolation ==
  /\ [](\A a \in Instances, b \in Instances :
          (a # b /\ firstRef[a] # NoFn /\ firstRef[b] # NoFn) =>
            /\ firstRef[a] # firstRef[b]
            /\ firstRef[a].this = a
            /\ firstRef[b].this = b)
  /\ [][\A a \in Instances :
          (\E style \in Styles : \E thisArg \in ThisArgs(style) :
             Invoke(a, style, thisArg)) =>
            /\ count'[a] = count[a] + 1
            /\ \A r \in Receivers \ {a} : count'[r] = count[r]]_vars

\* both instances are bound, A's function was called with B as receiver,
\* and only A has counted
C3_Witness ==
  /\ firstRef["A"].kind = "bound" /\ firstRef["B"].kind = "bound"
  /\ lastCall.from = "A" /\ lastCall.thisArg = "B"
  /\ count["A"] = 2 /\ count["B"] = 0

\* C4 (prototype purity): a read of a decorated method on the defining
\* object itself returns the original, unbound function, and the defining
\* object keeps the accessor as its own property: the resolver never writes
\* to it.
C4_PrototypePurity ==
  /\ (phase = "decorated" =>
        /\ slot[Target] = AccessorSlot(TRUE, ToBoolean(decl.descriptor.enumerable))
        /\ writes[Target] = 0)
  /\ ((last.op \in {"ReadProperty", "ReflectGet"} /\ last.receiver = Target
         /\ DeclaresMethod) =>
        /\ last.outcome = "return"
        /\ last.value = OriginalMethod
        /\ last.state = "PrototypeMethodState")

\* the defining object was read after an instance had been bound
C4_Witness ==
  /\ last.receiver = Target /\ last.op = "ReadProperty"
  /\ last.value = OriginalMethod
  /\ firstRef["A"].kind = "bound"
  /\ slot[Target].kind = "accessor"

\* C5 (write-once): the resolver writes the own slot of an instance exactly
\* once if an access through the instance succeeded and never if none did,
\* and it only ever writes a slot that is absent.
C5_WriteOnce ==
  /\ [](\A i \in Instances :
          writes[i] = IF firstRef[i] # NoFn THEN 1 ELSE 0)
  /\ [][\A i \in Instances :
          writes'[i] # writes[i] =>
            /\ slot[i].kind = "absent"
            /\ writes'[i] = writes[i] + 1
            /\ slot'[i].kind = "data"]_vars

\* an access through A ran the resolver again after the one write, and an
\* instance whose accesses fail has not been written
C5_Witness ==
  /\ writes["A"] = 1
  /\ last.receiver = "A" /\ last.state = "ExistingBindState"
  /\ alive["B"] /\ ~extensible["B"] /\ writes["B"] = 0 /\ nextId >= 2

\* C6 (descriptor fidelity): after the first successful read through
\* instance i, i has an own data property holding the bound function, which
\* is configurable, writable, and enumerable exactly when the original
\* descriptor said so (not enumerable when it left the flag unspecified).
C6_DescriptorFidelity ==
  \A i \in Instances :
    firstRef[i] # NoFn =>
      /\ slot[i].kind = "data"
      /\ slot[i].value = firstRef[i]
      /\ firstRef[i].kind = "bound"
      /\ slot[i].configurable
      /\ slot[i].writable
      /\ slot[i].enumerable = (decl.descriptor.enumerable = "true")

\* an instance bound under a declaration that left enumerable unspecified
C6_Witness ==
  /\ decl.descriptor.enumerable = "undefined"
  /\ firstRef["A"].kind = "bound"
  /\ slot["A"].kind = "data" /\ ~slot["A"].enumerable

\* C7 (non-method rejection): when the decorated member's value is not a
\* function, every access fails with the TypeError of the validation, no
\* function is ever bound, and no object gains an own property.
C7_NonMethodRejection ==
  (phase = "decorated" /\ decl.descriptor.value = NotAFunction) =>
    /\ nextId = 0
    /\ \A i \in Instances : slot[i] = Absent /\ writes[i] = 0
    /\ slot[Target].kind = "accessor"
    /\ (last.op \in {"ReadProperty", "ReflectGet"} =>
          /\ last.outcome = "throw"
          /\ last.error = "TypeError"
          /\ last.message = "Method must be a function"
          /\ last.state = "Invalid"
          /\ last.failedOperation = "none")

\* an instance of a class with a decorated non-method was read through
C7_Witness ==
  /\ decl.descriptor.value = NotAFunction
  /\ decl.ctor = "Class"
  /\ last.op = "ReadProperty" /\ last.receiver = "A"
  /\ last.error = "TypeError"

\* C8 (eligibility failure): an access through an instance without the
\* property, for a target the eligibility guard rejects, ends in the Error
\* state of phase 'bind' and throws a BindError with the guard's message; it
\* binds nothing and leaves every slot as it was, so the next access through
\* the instance is rejected the same way instead of finding a binding.
C8_EligibilityFailure ==
  /\ [](last.state = "BindingErrorState" =>
          /\ decl.ctor = "Object"
          /\ last.outcome = "throw"
          /\ last.error = "BindError"
          /\ last.message = "Cannot bind: method should not bind to prototype"
          /\ last.failedOperation = "bind"
          /\ slot[last.receiver] = Absent
          /\ nextId = 0)
  /\ [][\A i \in Instances :
          (Reads(i) /\ DeclaresMethod /\ decl.ctor = "Object") =>
            /\ slot[i] = Absent
            /\ last'.state = "BindingErrorState"
            /\ last'.error = "BindError"
            /\ slot' = slot
            /\ nextId' = nextId
            /\ firstRef' = firstRef]_vars

\* an instance of an ineligible target was read through and rejected
C8_Witness ==
  /\ last.state = "BindingErrorState"
  /\ last.receiver = "A"
  /\ last.error = "BindError"
  /\ alive["B"]

\* C9 (define failure): an access through an instance on which the bound
\* function cannot be defined (the instance is not extensible) fails with a
\* BindError, through an Error state of phase 'define'.
C9_DefineFailureIsBindError ==
  (/\ last.op \in {"ReadProperty", "ReflectGet"}
   /\ last.receiver \in Instances
   /\ DeclaresMethod
   /\ decl.ctor = "Class"
   /\ ~extensible[last.receiver]) =>
    /\ last.outcome = "throw"
    /\ last.error = "BindError"
    /\ last.state = "BindingErrorState"
    /\ last.failedOperation = "define"

\* C10 (decoration is side-effect free): applying the decorator to a
\* declaration that has a descriptor yields an accessor descriptor that is
\* configurable, copies the enumerable flag, has a getter and no setter; the
\* step resolves nothing, binds nothing and writes no property of any object.
C10_DecorationSideEffectFree ==
  /\ [](phase \in {"applied", "decorated"} =>
          /\ accessor.configurable
          /\ accessor.enumerable = decl.descriptor.enumerable
          /\ accessor.hasGet
          /\ ~accessor.hasSet)
  /\ [][(ApplyDecorator /\ decl.descriptor.present) =>
          /\ phase' = "applied"
          /\ slot' = slot
          /\ nextId' = nextId
          /\ writes' = writes
          /\ firstRef' = firstRef
          /\ last' = last]_vars

\* the decorator has been applied to an enumerable method while an instance
\* exists, and nothing has been resolved or installed
C10_Witness ==
  /\ phase = "applied"
  /\ decl.descriptor.enumerable = "true"
  /\ accessor.hasGet
  /\ alive["A"]
  /\ slot[Target].kind = "data"
  /\ last = NoAccess

\* the getter of the accessor runs with this = o: an explicit receiver, or
\* an ordinary read that finds the accessor on the prototype chain
GetterRuns(o) ==
  \/ ReflectGet(o)
  \/ ReadProperty(o) /\ slot[Holder(o)].kind = "accessor"

\* the binding request the getter builds passes validation
ValidRequest == DeclaresMethod /\ decl.propertyKey # ""

\* the terminal state the rules of the resolver, taken in order, give an
\* access through o
RuleOutcome(o) ==
  IF o = Target THEN "PrototypeMethodState"
  ELSE IF slot[o].kind # "absent" THEN "ExistingBindState"
  ELSE IF decl.ctor = "Object" THEN "BindingErrorState"
  ELSE "DefinedPropertyState"

\* C11 (rule order): every run of the getter on a valid request ends in one
\* of the four terminal states, the one the first applicable rule names:
\* prototype access, existing binding, Error (bind), defined property; the
\* getter's fallback error is never thrown.
C11_RuleOrder ==
  /\ [][\A o \in Objects :
          (GetterRuns(o) /\ ValidRequest) => last'.state = RuleOutcome(o)]_vars
  /\ [](last.message # "Invalid state returned from delegator")

\* C12 (existing binding is the binder's): whenever an access ends in
\* ExistingBindState, the function returned is a bound function, bound to
\* the instance accessed through.
C12_ExistingBindingIsOwn ==
  last.state = "ExistingBindState" =>
    /\ last.value.kind = "bound"
    /\ last.value.this = last.receiver

\* C13 (access via a prototype never binds): an object that other objects
\* inherit from is never written by the resolver and never holds a bound
\* function, and an object that inherits through it gets, when read
\* through, a function bound to itself.
C13_PrototypeNeverBound ==
  /\ \A p \in Objects :
       (\E b \in Instances : proto[b] = p) =>
         /\ writes[p] = 0
         /\ slot[p].value.kind # "bound"
  /\ \A b \in Instances :
       firstRef[b].kind = "bound" => firstRef[b].this = b

\* C14 (eligibility guard): a run of the getter that reaches the guard - a
\* valid request through an object other than the defining object that has
\* no own property - is rejected exactly when the constructor of the
\* defining object is Object; with a class as constructor no access ever
\* ends in the Error state or throws a BindError.
C14_EligibilityGuard ==
  /\ [][\A i \in Instances :
          (GetterRuns(i) /\ ValidRequest /\ slot[i].kind = "absent") =>
            ((last'.state = "BindingErrorState") <=> (decl.ctor = "Object"))]_vars
  /\ [](decl.ctor = "Class" =>
          last.state # "BindingErrorState" /\ last.error # "BindError")

\* an instance of a class, inheriting through a subclass prototype, was
\* bound on its first read
C14_Witness ==
  /\ decl.ctor = "Class"
  /\ proto["B"] = "A"
  /\ last.receiver = "B" /\ last.state = "DefinedPropertyState"
  /\ last.value.this = "B"

\* the message of the first validation that fails
ValidationMessage(instance) ==
  IF instance = Undefined THEN "Instance must be provided"
  ELSE IF decl.propertyKey = "" THEN "Method name must be provided"
  ELSE "Method must be a function"

\* C15 (validation precedes resolution): a run of the getter on an invalid
\* request - no receiver, an empty property key, a value that is not a
\* function - throws the TypeError of the first failing validation, whether
\* the receiver is the defining object, has an own property or not, and it
\* changes no property table and binds nothing.
C15_ValidationFirst ==
  /\ [][\A o \in Objects :
          (GetterRuns(o) /\ ~ValidRequest) =>
            /\ last'.outcome = "throw"
            /\ last'.error = "TypeError"
            /\ last'.state = "Invalid"
            /\ last'.message = ValidationMessage(o)
            /\ UNCHANGED <<slot, nextId, writes, firstRef, extensible>>]_vars
  /\ [][CallGetter =>
          /\ last'.outcome = "throw"
          /\ last'.error = "TypeError"
          /\ last'.state = "Invalid"
          /\ last'.message = ValidationMessage(Undefined)
          /\ UNCHANGED <<slot, nextId, writes, firstRef, extensible>>]_vars

\* the getter ran with a receiver that has an own property, for a method
\* with an empty key, and threw the validation's TypeError
C15_Witness ==
  /\ decl.propertyKey = "" /\ DeclaresMethod
  /\ last.op = "ReflectGet" /\ last.receiver = "A"
  /\ slot["A"].kind = "data"
  /\ last.state = "Invalid" /\ last.error = "TypeError"
  /\ last.message = "Method name must be provided"

\* C16 (frame of an access): an access through o changes no property table
\* but o's, never the defining object's, and o's only when it ends in
\* DefinedPropertyState; an access ending anywhere else changes nothing.
C16_AccessFrame ==
  /\ [][\A o \in Objects :
          Reads(o) =>
            /\ \A p \in Objects \ {o} : slot'[p] = slot[p]
            /\ slot'[Target] = slot[Target]
            /\ (slot'[o] # slot[o] => last'.state = "DefinedPropertyState")
            /\ (last'.state # "DefinedPropertyState" =>
                  slot' = slot /\ writes' = writes)
            /\ UNCHANGED <<extensible, proto, alive, count>>]_vars
  /\ [][CallGetter => slot' = slot /\ writes' = writes]_vars

\* B, which inherits through A, was bound on its first read; A and the
\* defining object are as they were
C16_Witness ==
  /\ proto["B"] = "A" /\ alive["A"]
  /\ last.receiver = "B" /\ last.state = "DefinedPropertyState"
  /\ slot["B"].kind = "data" /\ slot["A"] = Absent
  /\ slot[Target].kind = "accessor"
  /\ firstRef[Target] = OriginalMethod

\* the four terminal states of the resolver
TerminalOutcomes ==
  {"PrototypeMethodState", "ExistingBindState", "DefinedPropertyState",
   "BindingErrorState"}

\* C17 (every access terminates): an access that has entered the getter
\* reaches one of the four terminal outcomes, and an access that has ended
\* ended in one of them, in a thrown validation TypeError, or was answered
\* by an own data property without the getter; it takes at most two steps
\* of the resolver (Initial, then at most the bound state waiting to be
\* defined), never going back to Initial, and the getter is never entered
\* again from inside an access, so none ends with the stack exhausted.
C17_AccessTerminates ==
  /\ Running ~> (~Running /\ last.state \in TerminalOutcomes)
  /\ []((~Running /\ last.op \in {"ReadProperty", "ReflectGet", "CallGetter"})
          => \/ last.state \in TerminalOutcomes \cup {"data"}
             \/ last.state = "Invalid" /\ last.error = "TypeError")
  /\ [][(Running /\ Running') =>
          /\ last.state = "InitialBindingState"
          /\ last'.state = "BoundMethodState"
          /\ last'.receiver = last.receiver]_vars
  /\ [](last.error # "RangeError")

====
